---- MODULE Spec2Model ----
(***************************************************************************)
(* Model of the bbb-dashboard metrics pipeline: build_model (app/model.py), *)
(* the stage functions of app/metrics.py, the join of app/data_loader.py   *)
(* and the script body of run_app (app/main.py).                           *)
(*                                                                         *)
(* Numbers.  Probabilities, games and points are fixed-point integers in   *)
(* thousandths: 1.0 is One, 0.125 is 125.  Sums and differences are exact, *)
(* so the model abstracts from binary floating-point error.  Group means   *)
(* are exact rationals [num, den].                                         *)
(*                                                                         *)
(* Text.  A string of the data is a sequence of one-character strings, so  *)
(* that strip(), the regular expression (\d+) and str comparison are       *)
(* computed character by character.                                        *)
(***************************************************************************)
EXTENDS Integers, Sequences, FiniteSets, TLC

VARIABLES pts, odds, selected_source, baseline, team_filter, position_filter, built, app,
          table, stage

vars == <<pts, odds, selected_source, baseline, team_filter, position_filter, built, app,
          table, stage>>

-----------------------------------------------------------------------------
(* Cells of a data frame column *)

\* the literal 1 of "1 + win_wc + win_div + win_conf", in thousandths
One == 1000

Num(v) == [k |-> "num", v |-> v]

\* a missing value (float NaN)
NaN == [k |-> "nan", v |-> 0]

\* a cell of a probability column holding non-numeric text
Txt == [k |-> "str", v |-> 0]

\* float addition: NaN propagates
Add(a, b) == IF a.k = "num" /\ b.k = "num" THEN Num(a.v + b.v) ELSE NaN

\* pd.to_numeric(col, errors="coerce").fillna(0.0) on one probability cell
CoerceFill(c) == IF c.k = "num" THEN c.v ELSE 0

-----------------------------------------------------------------------------
(* Text *)

DigitChars == <<"0", "1", "2", "3", "4", "5", "6", "7", "8", "9">>

Digits == {DigitChars[i] : i \in 1..10}

DigitVal(c) == (CHOOSE i \in 1..10 : DigitChars[i] = c) - 1

\* the characters of the model's team and position names in code point order
Alphabet == <<" ", "A", "B", "C", "E", "H", "K", "L", "O", "Q", "R", "S", "T", "W">>

CharCode(c) == CHOOSE i \in 1..Len(Alphabet) : Alphabet[i] = c

RECURSIVE StrLess(_, _)
\* Python's s < t on str
StrLess(s, t) ==
    IF t = <<>> THEN FALSE
    ELSE IF s = <<>> THEN TRUE
    ELSE IF Head(s) = Head(t) THEN StrLess(Tail(s), Tail(t))
    ELSE CharCode(Head(s)) < CharCode(Head(t))

RECURSIVE LStrip(_)
LStrip(s) == IF s # <<>> /\ Head(s) = " " THEN LStrip(Tail(s)) ELSE s

RECURSIVE RStrip(_)
RStrip(s) == IF s # <<>> /\ s[Len(s)] = " " THEN RStrip(SubSeq(s, 1, Len(s) - 1)) ELSE s

\* str.strip()
Strip(s) == RStrip(LStrip(s))

RECURSIVE IntToStr(_)
\* str(n) of an int n >= 0
IntToStr(n) ==
    IF n < 10 THEN <<DigitChars[n + 1]>>
    ELSE IntToStr(n \div 10) \o <<DigitChars[(n % 10) + 1]>>

RECURSIVE DropNonDigits(_)
DropNonDigits(s) ==
    IF s = <<>> \/ Head(s) \in Digits THEN s ELSE DropNonDigits(Tail(s))

RECURSIVE TakeDigits(_)
TakeDigits(s) ==
    IF s = <<>> \/ Head(s) \notin Digits THEN <<>>
    ELSE <<Head(s)>> \o TakeDigits(Tail(s))

\* .str.extract(r"(\d+)", expand=False): the first run of digits, <<>> when none
ExtractDigits(s) == TakeDigits(DropNonDigits(s))

RECURSIVE DigitsValue(_)
DigitsValue(d) ==
    IF d = <<>> THEN 0 ELSE 10 * DigitsValue(SubSeq(d, 1, Len(d) - 1)) + DigitVal(d[Len(d)])

\* pd.to_numeric(..., errors="coerce") on the extracted run (no match is NaN)
RunToNumeric(d) == IF d = <<>> THEN NaN ELSE Num(DigitsValue(d))

\* pd.to_numeric(..., errors="coerce") on a text cell of the model's seed
\* alphabet (no sign, decimal point, exponent or padding occurs in a seed
\* text that is not all digits): all digits parse, anything else is NaN
TextToNumeric(s) ==
    IF s # <<>> /\ \A i \in 1..Len(s) : s[i] \in Digits THEN Num(DigitsValue(s)) ELSE NaN

-----------------------------------------------------------------------------
(* Seed cells: an int, a text, or missing *)

SeedInt(n) == [k |-> "int", v |-> n, s |-> <<>>]

SeedTxt(s) == [k |-> "str", v |-> 0, s |-> s]

SeedNaN == [k |-> "nan", v |-> 0, s |-> <<>>]

\* .astype(str) on one cell; isFloat: the column's dtype is float64
AsTypeStr(c, isFloat) ==
    CASE c.k = "str" -> c.s
      [] c.k = "nan" -> <<"n", "a", "n">>
      [] OTHER -> IF isFloat THEN IntToStr(c.v) \o <<".", "0">> ELSE IntToStr(c.v)

\* the seed compared as a number, its text never parsed
SeedNumberIsBye(c, isFloat) == c.k = "int" /\ c.v = 1

\* seed -> astype(str) -> strip -> extract -> to_numeric -> eq(1)
SeedTextIsBye(c, isFloat) ==
    LET seed_num == RunToNumeric(ExtractDigits(Strip(AsTypeStr(c, isFloat))))
    IN  seed_num.k = "num" /\ seed_num.v = 1

\* team["Seed"] = pd.to_numeric(team.get("Seed"), errors="coerce"), one cell
SeedToNumeric(c) ==
    CASE c.k = "str" -> LET n == TextToNumeric(c.s)
                        IN  IF n.k = "num" THEN SeedInt(n.v) ELSE SeedNaN
      [] OTHER -> c

\* dtype of a raw Seed column: object with any text, float64 with a missing
\* value and no text, int64 otherwise
RawSeedIsFloat(col) ==
    /\ \A i \in DOMAIN col : col[i].seed.k # "str"
    /\ \E i \in DOMAIN col : col[i].seed.k = "nan"

-----------------------------------------------------------------------------
(* app/data_loader.py *)

\* the rows of a frame, computed once: a stage returns a new frame, not a view
Frame(f) == SubSeq(f, 1, Len(f))

\* _normalize_team: s.astype(str).str.strip()
NormalizeTeam(s) == Strip(s)

CanonicalizePts(pts_df) ==
    Frame([i \in 1..Len(pts_df) |->
        [pts_df[i] EXCEPT !.team = NormalizeTeam(@), !.position = Strip(@)]])

\* the column Team is named team from here on
CanonicalizeOdds(odds_df) ==
    Frame([i \in 1..Len(odds_df) |-> [odds_df[i] EXCEPT !.team = NormalizeTeam(@)]])

\* a stage's outcome: the raised exception's kind ("" when none) and its table
Ok(rows) == [err |-> "", rows |-> rows]

Raise(kind) == [err |-> kind, rows |-> <<>>]

JoinRow(l, r) ==
    [team |-> l.team, position |-> l.position, reg_ppg |-> l.reg_ppg,
     source |-> r.source, seed |-> r.seed, wc |-> r.wc, div |-> r.div, conf |-> r.conf]

\* the rows one left row yields: one per right row of its team, in right order
MatchesOf(l, right) ==
    LET hits == SelectSeq(right, LAMBDA r : r.team = l.team)
    IN  Frame([i \in 1..Len(hits) |-> JoinRow(l, hits[i])])

RECURSIVE MergeInner(_, _)
\* pts_c.merge(odds_c, on="team", how="inner"): left order kept
MergeInner(left, right) ==
    IF left = <<>> THEN <<>>
    ELSE MatchesOf(Head(left), right) \o MergeInner(Tail(left), right)

\* validate="many_to_one": the merge keys are unique in the right table
KeysUnique(right) ==
    \A i, j \in 1..Len(right) : right[i].team = right[j].team => i = j

\* the join without its validate= check: every match is kept
JoinUnvalidated(pts_c, odds_c) == Ok(MergeInner(pts_c, odds_c))

JoinPtsWithOdds(pts_c, odds_c) ==
    IF ~KeysUnique(odds_c) THEN Raise("MergeError") ELSE Ok(MergeInner(pts_c, odds_c))

-----------------------------------------------------------------------------
(* app/metrics.py *)

\* is_bye of add_expected_games for one row
MetricsIsBye(r, isFloat) == SeedTextIsBye(r.seed, isFloat)

\* np.where(is_bye, 0.0, out["Win WC"]), one row
WinWcPlayed(r, isFloat) == IF MetricsIsBye(r, isFloat) THEN Num(0) ELSE r.wc

\* the sum with Win WC always counted: no bye is recognised
ExpectedGamesNoBye(r, isFloat) == Add(Add(Add(Num(One), r.wc), r.div), r.conf)

\* 1 + win_wc_played + out["Win Div"] + out["Win Conf"], one row
ExpectedGamesCell(r, isFloat) ==
    Add(Add(Add(Num(One), WinWcPlayed(r, isFloat)), r.div), r.conf)

\* adding a number and a str raises TypeError
SumHasText(r, isFloat) ==
    WinWcPlayed(r, isFloat).k = "str" \/ r.div.k = "str" \/ r.conf.k = "str"

AddExpectedGames(rows, isFloat) ==
    IF \E i \in 1..Len(rows) : SumHasText(rows[i], isFloat) THEN Raise("TypeError")
    ELSE Ok(Frame([i \in 1..Len(rows) |->
                [expected_games |-> ExpectedGamesCell(rows[i], isFloat)] @@ rows[i]]))

\* out[base_col] * out["expected_games"], base_col = reg_ppg
AddExpectedPoints(rows) ==
    Frame([i \in 1..Len(rows) |->
        [expected_points |->
            IF rows[i].expected_games.k = "num"
            THEN Num(rows[i].reg_ppg * rows[i].expected_games.v) ELSE NaN] @@ rows[i]])

-----------------------------------------------------------------------------
(* Exact numbers of the derived columns *)

Rat(n, d) == [num |-> n, den |-> d]

\* a > b for rationals with positive denominators
RatGt(a, b) == a.num * b.den > b.num * a.den

RatEq(a, b) == a.num * b.den = b.num * a.den

\* the columns that hold a rational; every other numeric column holds an integer
RatCols == {"position_avg_expected_points", "value_vs_position_avg_expected_points"}

\* the value of column col of row r
ValueOf(r, col) == IF col \in RatCols THEN r[col] ELSE Rat(r[col], 1)

RECURSIVE InsertDesc(_, _)
InsertDesc(x, s) ==
    IF s = <<>> THEN <<x>>
    ELSE IF RatGt(Head(s), x) THEN <<Head(s)>> \o InsertDesc(x, Tail(s))
    ELSE <<x>> \o s

RECURSIVE SortDesc(_)
SortDesc(s) == IF s = <<>> THEN <<>> ELSE InsertDesc(Head(s), SortDesc(Tail(s)))

\* the number of distinct values above v, plus one, in the descending order s
DensePlace(s, v) ==
    1 + Cardinality({k \in 1..Len(s) : RatGt(s[k], v) /\ (k = 1 \/ RatGt(s[k - 1], s[k]))})

\* the place after the leading values of the descending order s that are
\* above v: the first place of v's run of ties
FirstPlace(s, v) ==
    1 + Cardinality({k \in 1..Len(s) : \A j \in 1..k : RatGt(s[j], v)})

\* dense ranking, method="dense": ties share a place and no place is skipped
RankDense(vals, v) == DensePlace(SortDesc(vals), v)

\* Series.rank(method="min", ascending=False) of value v among vals: the
\* values in descending order, ties given the first place of their run
RankMin(vals, v) == FirstPlace(SortDesc(vals), v)

\* the rows of r's team: the grouping of the legacy team-relative columns
TeamGroup(rows, r) == SelectSeq(rows, LAMBDA x : x.team = r.team)

\* groupby("position"): the rows of r's group
PositionGroup(rows, r) == SelectSeq(rows, LAMBDA x : x.position = r.position)

\* df.groupby("position")[col].rank(method="min", ascending=False).astype(int)
GroupRank(rows, r, col) ==
    LET g == PositionGroup(rows, r)
    IN  RankMin(Frame([j \in 1..Len(g) |-> ValueOf(g[j], col)]), ValueOf(r, col))

\* df[col].rank(method="min", ascending=False).astype(int)
ColumnRank(rows, r, col) ==
    RankMin(Frame([j \in 1..Len(rows) |-> ValueOf(rows[j], col)]), ValueOf(r, col))

RECURSIVE SumPoints(_)
SumPoints(g) == IF g = <<>> THEN 0 ELSE Head(g).expected_points + SumPoints(Tail(g))

RECURSIVE MinPoints(_)
MinPoints(g) ==
    IF Len(g) = 1 THEN g[1].expected_points
    ELSE LET m == MinPoints(Tail(g))
         IN  IF Head(g).expected_points < m THEN Head(g).expected_points ELSE m

\* out.groupby("position")[value_col].transform("mean")
AddPositionAverages(rows) ==
    Frame([i \in 1..Len(rows) |->
        LET g == PositionGroup(rows, rows[i])
        IN  [position_avg_expected_points |-> Rat(SumPoints(g), Len(g))] @@ rows[i]])

\* out[value_col] - out[avg_col]
AddValueVsPositionAvg(rows) ==
    Frame([i \in 1..Len(rows) |->
        LET a == rows[i].position_avg_expected_points
        IN  [value_vs_position_avg_expected_points |->
                Rat(rows[i].expected_points * a.den - a.num, a.den)] @@ rows[i]])

\* out.groupby("position")[value_col].transform("min")
AddPositionMins(rows) ==
    Frame([i \in 1..Len(rows) |->
        [position_min_expected_points |-> MinPoints(PositionGroup(rows, rows[i]))]
            @@ rows[i]])

\* out[value_col] - out[min_col]
AddValueVsPositionMin(rows) ==
    Frame([i \in 1..Len(rows) |->
        [value_vs_position_min_expected_points |->
            rows[i].expected_points - rows[i].position_min_expected_points] @@ rows[i]])

-----------------------------------------------------------------------------
(* The unit table: app/model.py lines 40-73, repeated in app/main.py 59-125 *)

\* the probability and games columns as plain numbers, once none is NaN
Unwrap(rows) ==
    Frame([i \in 1..Len(rows) |->
        [rows[i] EXCEPT !.expected_games = @.v, !.expected_points = @.v]])

\* ppg_rank, exp_games_rank, exp_pts_rank within position
AddRanks(rows) ==
    Frame([i \in 1..Len(rows) |->
        [ppg_rank |-> GroupRank(rows, rows[i], "reg_ppg"),
         exp_games_rank |-> GroupRank(rows, rows[i], "expected_games"),
         exp_pts_rank |-> GroupRank(rows, rows[i], "expected_points")] @@ rows[i]])

\* join, the six stages and the three ranks.  A NaN in expected_games makes
\* .rank(...).astype(int) raise; the stages before it raise nothing on NaN
\* and what they computed is lost with the exception, so the numeric stages
\* are computed only for tables without NaN.  load_team_metadata() is an
\* external table with one row per team_abbr: its left merge keeps the rows
\* and their order, and the colour columns it adds are not modelled.
UnitPipeline(pts_c, odds_sel, isFloat) ==
    LET j == JoinPtsWithOdds(pts_c, odds_sel)
        g == AddExpectedGames(j.rows, isFloat)
        p == AddExpectedPoints(g.rows)
    IN  IF j.err # "" THEN Raise(j.err)
        ELSE IF g.err # "" THEN Raise(g.err)
        ELSE IF \E i \in 1..Len(p) : p[i].expected_games.k = "nan"
             THEN Raise("IntCastingNaNError")
        ELSE Ok(AddRanks(AddValueVsPositionMin(AddPositionMins(
                    AddValueVsPositionAvg(AddPositionAverages(Unwrap(p)))))))

\* rank_table of build_model: unit_label, position_rank, ppg_rank
RankTable(m) ==
    Frame([i \in 1..Len(m) |->
        [unit_label |-> m[i].team \o <<" ">> \o m[i].position,
         position_rank |-> GroupRank(m, m[i], "expected_points")]
        @@ [m[i] EXCEPT !.ppg_rank = GroupRank(m, m[i], "reg_ppg")]])

-----------------------------------------------------------------------------
(* The team distribution table *)

\* round to the nearest multiple of unit, halves to even (numpy's round)
RoundHalfEven(x, unit) ==
    LET q == x \div unit
        r == x % unit
    IN  IF 2 * r < unit THEN q * unit
        ELSE IF 2 * r > unit THEN (q + 1) * unit
        ELSE IF q % 2 = 0 THEN q * unit ELSE (q + 1) * unit

\* .round(2) of a number in thousandths
Round2(x) == RoundHalfEven(x, 10)

\* f"{x:.2f}" of a number in thousandths already rounded to hundredths
Format2(x) ==
    IntToStr(x \div 1000) \o <<".">> \o IntToStr((x % 1000) \div 100)
        \o IntToStr((x % 100) \div 10)

\* (x * 100).round(0).astype(int): whole percent of a number in thousandths
Percent(x) == RoundHalfEven(x, 10) \div 10

\* ... .astype(str) + "%"
PercentText(x) ==
    LET p == Percent(x)
    IN  (IF p < 0 THEN <<"-">> \o IntToStr(-p) ELSE IntToStr(p)) \o <<"%">>

\* dtype of team["Seed"] after pd.to_numeric: float64 when the raw column is,
\* or when a cell of the slice became NaN
TeamSeedIsFloat(odds_sel, rawFloat) ==
    rawFloat \/ \E i \in 1..Len(odds_sel) : SeedToNumeric(odds_sel[i].seed).k = "nan"

\* is_bye of build_model: the seed parse applied to the coerced Seed column
ModelIsBye(r, isFloat) == SeedTextIsBye(SeedToNumeric(r.seed), isFloat)

\* is_bye of run_app: team["Seed"].eq(1) on the coerced Seed column
AppIsBye(r, isFloat) == SeedToNumeric(r.seed).k = "int" /\ SeedToNumeric(r.seed).v = 1

\* the bye row with play2 copied from the non-bye branch
DistributionSlip(wc, div, conf, is_bye) ==
    IF is_bye
    THEN [play1 |-> One - div, play2 |-> wc - div, play3 |-> conf, play4 |-> 0,
          play3plus |-> conf]
    ELSE [play1 |-> One - wc, play2 |-> wc - div, play3 |-> div - conf, play4 |-> conf,
          play3plus |-> div]

\* Play 1 .. Play 4 and Play 3+ before rendering
Distribution(wc, div, conf, is_bye) ==
    IF is_bye
    THEN [play1 |-> One - div, play2 |-> div - conf, play3 |-> conf, play4 |-> 0,
          play3plus |-> conf]
    ELSE [play1 |-> One - wc, play2 |-> wc - div, play3 |-> div - conf, play4 |-> conf,
          play3plus |-> div]

\* one row of the team frame; games: Expected Games before .round(2)
TeamRow(r, is_bye, games) ==
    LET wc == CoerceFill(r.wc)
        div == CoerceFill(r.div)
        conf == CoerceFill(r.conf)
        d == Distribution(wc, div, conf, is_bye)
    IN  [team |-> r.team, source |-> r.source, is_bye |-> is_bye,
         wc |-> wc, div |-> div, conf |-> conf,
         games |-> games,
         expected_games |-> Round2(games),
         expected_games_text |-> Format2(Round2(games)),
         play1 |-> d.play1, play2 |-> d.play2, play3 |-> d.play3, play4 |-> d.play4,
         play3plus |-> d.play3plus,
         play1_text |-> PercentText(d.play1), play2_text |-> PercentText(d.play2),
         play3_text |-> PercentText(d.play3), play4_text |-> PercentText(d.play4),
         play3plus_text |-> PercentText(d.play3plus)]

\* np.where(is_bye, 1 + Div + Conf, 1 + WC + Div + Conf) of build_model
ModelTeamGames(r, is_bye) ==
    IF is_bye THEN One + CoerceFill(r.div) + CoerceFill(r.conf)
    ELSE One + CoerceFill(r.wc) + CoerceFill(r.div) + CoerceFill(r.conf)

\* 1 + WC + Div + Conf of run_app
AppTeamGames(r, is_bye) == One + CoerceFill(r.wc) + CoerceFill(r.div) + CoerceFill(r.conf)

RECURSIVE InsertTeam(_, _)
InsertTeam(x, s) ==
    IF s = <<>> THEN <<x>>
    ELSE IF Head(s).expected_games > x.expected_games
         THEN <<Head(s)>> \o InsertTeam(x, Tail(s))
    ELSE <<x>> \o s

RECURSIVE SortTeams(_)
\* .sort_values("Expected Games", ascending=False); ties keep their order
SortTeams(s) == IF s = <<>> THEN <<>> ELSE InsertTeam(Head(s), SortTeams(Tail(s)))

\* team_display of build_model
ModelTeamDisplay(odds_sel, rawFloat) ==
    LET f == TeamSeedIsFloat(odds_sel, rawFloat)
    IN  SortTeams([i \in 1..Len(odds_sel) |->
            LET b == ModelIsBye(odds_sel[i], f)
            IN  TeamRow(odds_sel[i], b, ModelTeamGames(odds_sel[i], b))])

\* team_display of run_app
AppTeamDisplay(odds_sel, rawFloat) ==
    LET f == TeamSeedIsFloat(odds_sel, rawFloat)
    IN  SortTeams([i \in 1..Len(odds_sel) |->
            LET b == AppIsBye(odds_sel[i], f)
            IN  TeamRow(odds_sel[i], b, AppTeamGames(odds_sel[i], b))])

-----------------------------------------------------------------------------
(* build_model, app/model.py *)

\* a missing Odds Source cell
NoSource == "<NA>"

\* the odds source names of the model in sorted (str) order
SourceOrder == <<"DVOA", "ESPN", "Vegas">>

\* sorted(odds_c["Odds Source"].dropna().unique().tolist())
OddsSources(odds_c) ==
    SelectSeq(SourceOrder, LAMBDA s : \E i \in 1..Len(odds_c) : odds_c[i].source = s)

\* the first source whatever was asked for: the fallback taken unconditionally
FirstSource(selected, odds_sources) ==
    IF odds_sources # <<>> THEN odds_sources[1] ELSE selected

\* if selected_source not in odds_sources and odds_sources: ... = odds_sources[0]
EffectiveSource(selected, odds_sources) ==
    IF (\A i \in 1..Len(odds_sources) : odds_sources[i] # selected) /\ odds_sources # <<>>
    THEN odds_sources[1] ELSE selected

\* the odds table with no source test: the slice that lets every source through
OddsUnsliced(odds_c, selected) == odds_c

\* odds_c[odds_c["Odds Source"] == selected_source].copy()
OddsSel(odds_c, selected) == SelectSeq(odds_c, LAMBDA r : r.source = selected)

NotBuilt ==
    [called |-> FALSE, arg |-> "", err |-> "", m |-> <<>>, rank_table |-> <<>>,
     team_display |-> <<>>, odds_sources |-> <<>>, selected_source |-> ""]

\* build_model(pts_df, odds_df, selected_source): what it returns, or the
\* exception it raises (err) and then nothing
BuildModel(pts_df, odds_df, selected) ==
    LET pts_c == CanonicalizePts(pts_df)
        odds_c == CanonicalizeOdds(odds_df)
        odds_sources == OddsSources(odds_c)
        eff == EffectiveSource(selected, odds_sources)
        odds_sel == OddsSel(odds_c, eff)
        rawFloat == RawSeedIsFloat(odds_c)
        u == UnitPipeline(pts_c, odds_sel, rawFloat)
    IN  IF u.err # ""
        THEN [NotBuilt EXCEPT !.called = TRUE, !.arg = selected, !.err = u.err]
        ELSE [called |-> TRUE, arg |-> selected, err |-> "", m |-> u.rows,
              rank_table |-> RankTable(u.rows),
              team_display |-> ModelTeamDisplay(odds_sel, rawFloat),
              odds_sources |-> odds_sources, selected_source |-> eff]

-----------------------------------------------------------------------------
(* run_app, app/main.py *)

\* [overall_rank, position, team] of a before that of b
RowBefore(a, b) ==
    \/ a.overall_rank < b.overall_rank
    \/ /\ a.overall_rank = b.overall_rank
       /\ \/ StrLess(a.position, b.position)
          \/ a.position = b.position /\ StrLess(a.team, b.team)

RECURSIVE InsertRow(_, _)
InsertRow(x, s) ==
    IF s = <<>> THEN <<x>>
    ELSE IF RowBefore(Head(s), x) THEN <<Head(s)>> \o InsertRow(x, Tail(s))
    ELSE <<x>> \o s

RECURSIVE SortRows(_)
\* .sort_values(["overall_rank", "position", "team"]).reset_index(drop=True)
SortRows(s) == IF s = <<>> THEN <<>> ELSE InsertRow(Head(s), SortRows(Tail(s)))

\* table of run_app: unit_label, overall_rank on the average baseline,
\* position_rank, ppg_rank, sorted
AppRankTable(m) ==
    SortRows([i \in 1..Len(m) |->
        [unit_label |-> m[i].team \o <<" ">> \o m[i].position,
         overall_rank |-> ColumnRank(m, m[i], "value_vs_position_avg_expected_points"),
         position_rank |-> GroupRank(m, m[i], "expected_points")]
        @@ [m[i] EXCEPT !.ppg_rank = GroupRank(m, m[i], "reg_ppg")]])

ValueCol(b) ==
    IF b = "avg" THEN "value_vs_position_avg_expected_points"
    ELSE "value_vs_position_min_expected_points"

\* base: overall_rank on the chosen baseline over the whole rank_table, sorted
Base(rank_table, b) ==
    SortRows([i \in 1..Len(rank_table) |->
        [rank_table[i] EXCEPT
            !.overall_rank = ColumnRank(rank_table, rank_table[i], ValueCol(b))]])

\* the filters, then the ranks computed again on the rows that are left
FilterThenRank(base, tf, pf, b) ==
    LET kept == SelectSeq(base, LAMBDA r :
                    /\ tf # {} => r.team \in tf
                    /\ pf # {} => r.position \in pf)
    IN  Base(kept, b)

\* filtered[filtered["team"].isin(team_filter)], the same for position; an
\* empty filter keeps every row
ApplyFilters(base, tf, pf, b) ==
    SelectSeq(base, LAMBDA r :
        /\ tf # {} => r.team \in tf
        /\ pf # {} => r.position \in pf)

\* the columns of table_display
TableDisplay(filtered, b) ==
    Frame([i \in 1..Len(filtered) |->
        [overall_rank |-> filtered[i].overall_rank,
         unit_label |-> filtered[i].unit_label,
         position_rank |-> filtered[i].position_rank,
         reg_ppg |-> filtered[i].reg_ppg,
         ppg_rank |-> filtered[i].ppg_rank,
         expected_points |-> filtered[i].expected_points,
         value |-> ValueOf(filtered[i], ValueCol(b))]])

\* all_positions = ["QB", "RB", "WR", "TE", "K", "OTH"]
AllPositions ==
    {<<"Q", "B">>, <<"R", "B">>, <<"W", "R">>, <<"T", "E">>, <<"K">>, <<"O", "T", "H">>}

Col(rows, name) == {rows[i][name] : i \in 1..Len(rows)}

NotRendered ==
    [rendered |-> FALSE, err |-> "", source |-> "", baseline |-> "", m |-> <<>>,
     rank_table |-> <<>>, team_display |-> <<>>, base |-> <<>>, filtered |-> <<>>,
     table_display |-> <<>>, all_teams |-> {}, present_positions |-> {}]

\* one run of the script with the widgets at src, b, tf, pf
RunApp(pts_df, odds_df, src, b, tf, pf) ==
    LET pts_c == CanonicalizePts(pts_df)
        odds_c == CanonicalizeOdds(odds_df)
        odds_sel == OddsSel(odds_c, src)
        rawFloat == RawSeedIsFloat(odds_c)
        u == UnitPipeline(pts_c, odds_sel, rawFloat)
        rank_table == AppRankTable(u.rows)
        base == Base(rank_table, b)
        filtered == ApplyFilters(base, tf, pf, b)
    IN  IF OddsSources(odds_c) = <<>>
        THEN [NotRendered EXCEPT !.rendered = TRUE, !.err = "stopped"]
        ELSE IF u.err # ""
        THEN [NotRendered EXCEPT !.rendered = TRUE, !.err = u.err, !.source = src]
        ELSE [rendered |-> TRUE, err |-> "", source |-> src, baseline |-> b,
              m |-> u.rows, rank_table |-> rank_table,
              team_display |-> AppTeamDisplay(odds_sel, rawFloat),
              base |-> base, filtered |-> filtered,
              table_display |-> TableDisplay(filtered, b),
              all_teams |-> Col(rank_table, "team"),
              present_positions |-> Col(rank_table, "position") \cap AllPositions]

-----------------------------------------------------------------------------
(* The stage functions of app/metrics.py called one at a time, in any     *)
(* order, on a table that may lack columns.  A table is a non-empty       *)
(* sequence of rows with one domain, its columns; its win probabilities   *)
(* are numbers, so that every derived column holds plain numbers.         *)

\* df.columns
Columns(df) == DOMAIN df[1]

\* add_expected_games(df): out["expected_games"] = ... on a copy of df
ExpectedGamesStage(df) ==
    IF ~({"wc", "div", "conf"} \subseteq Columns(df)) THEN Raise("KeyError")
    ELSE IF "seed" \in Columns(df)
    THEN Ok(Frame([i \in 1..Len(df) |->
                [expected_games |-> ExpectedGamesCell(df[i], RawSeedIsFloat(df)).v]
                    @@ df[i]]))
    ELSE Ok(Frame([i \in 1..Len(df) |->
                [expected_games |->
                    Add(Add(Add(Num(One), df[i].wc), df[i].div), df[i].conf).v]
                    @@ df[i]]))

\* add_expected_points(df, base_col="reg_ppg")
ExpectedPointsStage(df) ==
    IF "reg_ppg" \notin Columns(df) THEN Raise("KeyError")
    ELSE IF "expected_games" \notin Columns(df) THEN Raise("KeyError")
    ELSE Ok(Frame([i \in 1..Len(df) |->
                [expected_points |-> df[i].reg_ppg * df[i].expected_games] @@ df[i]]))

\* add_position_averages(df, value_col="expected_points")
PositionAveragesStage(df) ==
    IF "expected_points" \notin Columns(df) THEN Raise("KeyError")
    ELSE IF "position" \notin Columns(df) THEN Raise("KeyError")
    ELSE Ok(AddPositionAverages(df))

\* add_value_vs_position_avg(df, value_col="expected_points")
ValueVsPositionAvgStage(df) ==
    IF "expected_points" \notin Columns(df) THEN Raise("KeyError")
    ELSE IF "position_avg_expected_points" \notin Columns(df) THEN Raise("KeyError")
    ELSE Ok(AddValueVsPositionAvg(df))

\* add_position_mins(df, value_col="expected_points")
PositionMinsStage(df) ==
    IF "expected_points" \notin Columns(df) THEN Raise("KeyError")
    ELSE IF "position" \notin Columns(df) THEN Raise("KeyError")
    ELSE Ok(AddPositionMins(df))

\* add_value_vs_position_min(df, value_col="expected_points")
ValueVsPositionMinStage(df) ==
    IF "expected_points" \notin Columns(df) THEN Raise("KeyError")
    ELSE IF "position_min_expected_points" \notin Columns(df) THEN Raise("ValueError")
    ELSE Ok(AddValueVsPositionMin(df))

NoStage == [called |-> FALSE, name |-> "", err |-> "", returned |-> FALSE, given |-> <<>>]

\* the record of one stage call on df that ended as out
StageCall(name, df, out) ==
    [called |-> TRUE, name |-> name, err |-> out.err, returned |-> out.err = "",
     given |-> df]

-----------------------------------------------------------------------------
(* Inputs *)

KC == <<"K", "C">>

SEA == <<"S", "E", "A">>

BAL == <<"B", "A", "L">>

QB == <<"Q", "B">>

RB == <<"R", "B">>

Unit(t, p, v) == [team |-> t, position |-> p, reg_ppg |-> v]

OddsRow(t, s, seed, wc, div, conf) ==
    [team |-> t, source |-> s, seed |-> seed, wc |-> wc, div |-> div, conf |-> conf]

\* the sources a caller of build_model may name
CallerSources == {"DVOA", "ESPN", "Vegas"}

\* reg_ppg values are 1..MaxPpg
MaxPpg == 2

\* a filter holds at most MaxFilter teams or positions
MaxFilter == 1

\* an odds table of the join inputs has at most MaxOdds rows
MaxOdds == 3

\* rank inputs: five units (one team name padded), three reg_ppg free, so
\* that ties and gaps occur; SEA and BAL share their DVOA odds
RankPts ==
    {<<Unit(<<"K", "C", " ">>, QB, v[1]), Unit(SEA, QB, v[2]), Unit(BAL, QB, v[3]),
       Unit(KC, RB, 2), Unit(BAL, RB, 1)>> : v \in [1..3 -> 1..MaxPpg]}

RankOdds ==
    {<<OddsRow(KC, "DVOA", SeedInt(1), Num(1000), Num(600), Num(300)),
       OddsRow(SEA, "DVOA", SeedInt(2), Num(500), Num(200), Num(50)),
       OddsRow(BAL, "DVOA", SeedInt(3), Num(500), Num(200), Num(50)),
       OddsRow(KC, "ESPN", SeedInt(2), Num(500), Num(div), Num(50)),
       OddsRow(SEA, "ESPN", SeedInt(1), Num(0), Num(500), Num(250))>> : div \in {125, 500}}

\* seeds: clean, noisy, multi-digit, without digits, missing
SeedValues ==
    {SeedInt(1), SeedInt(2), SeedInt(10), SeedTxt(<<"#", "1">>),
     SeedTxt(<<"S", "e", "e", "d", " ", "1">>), SeedTxt(<<"1">>), SeedTxt(<<"1", "0">>),
     SeedTxt(<<"x">>), SeedNaN}

ProbCells == {Num(0), Num(125), Num(300), Num(1000), NaN, Txt}

\* calculation inputs: one team's odds row free, a second team fixed
CalcPts == {<<Unit(KC, QB, 10), Unit(KC, RB, 4), Unit(SEA, QB, 8)>>}

CalcOdds ==
    {<<OddsRow(KC, "DVOA", sd, wc, div, conf),
       OddsRow(SEA, "DVOA", SeedInt(2), Num(500), Num(200), Num(50))>> :
        sd \in SeedValues, wc \in ProbCells, div \in ProbCells, conf \in ProbCells}

\* join inputs: any odds table of at most MaxOdds rows over two teams and
\* the sources DVOA, ESPN and missing; unit tables with and without full cover
JoinPts ==
    {<<Unit(KC, QB, 10), Unit(KC, RB, 4), Unit(SEA, QB, 8), Unit(SEA, RB, 6),
       Unit(BAL, QB, 7), Unit(BAL, RB, 3)>>,
     <<Unit(KC, QB, 10), Unit(SEA, QB, 8), Unit(SEA, RB, 6)>>}

JoinOddsRows ==
    {OddsRow(t, s, SeedInt(2), Num(500), Num(200), Num(50)) :
        t \in {KC, SEA}, s \in {"DVOA", "ESPN", NoSource}}

JoinOdds == UNION {[1..n -> JoinOddsRows] : n \in 0..MaxOdds}

\* seeds of the stage inputs: those of SeedValues and texts with a second
\* run of digits, a leading zero, a sign and blanks around
StageSeeds ==
    SeedValues \cup
    {SeedTxt(<<"2", "-", "1">>), SeedTxt(<<"0", "1">>), SeedTxt(<<"-", "1">>),
     SeedTxt(<<" ", "1", " ">>), SeedTxt(<<"1", "s", "t">>), SeedTxt(<<"1", "1">>)}

\* the columns a stage input may lack
Droppable == {"position", "reg_ppg", "seed", "conf"}

\* stage inputs: a joined table of three rows (one team's seed free, the
\* other's seed an int, missing or text, so that the Seed column takes each
\* dtype) without some of the droppable columns
StageTables ==
    {[i \in 1..3 |->
        LET full == <<JoinRow(Unit(KC, QB, 10),
                          OddsRow(KC, "DVOA", sd, Num(1000), Num(300), Num(125))),
                      JoinRow(Unit(KC, RB, 4),
                          OddsRow(KC, "DVOA", sd, Num(1000), Num(300), Num(125))),
                      JoinRow(Unit(SEA, QB, 8),
                          OddsRow(SEA, "DVOA", other, Num(500), Num(200), Num(50)))>>
        IN  [c \in (DOMAIN full[i]) \ drop |-> full[i][c]]] :
     sd \in StageSeeds, other \in {SeedInt(2), SeedNaN, SeedTxt(<<"x">>)},
     drop \in SUBSET Droppable}

-----------------------------------------------------------------------------
(* The state machine: calls of build_model, and the script run_app, which *)
(* Streamlit runs once and then again after every widget change           *)

\* the widgets' defaults: index=0 of the selectboxes, default=[] of the filters
InitOn(PtsSet, OddsSet) ==
    /\ pts \in PtsSet
    /\ odds \in OddsSet
    /\ selected_source =
          LET srcs == OddsSources(CanonicalizeOdds(odds))
          IN  IF srcs = <<>> THEN "" ELSE srcs[1]
    /\ baseline = "avg"
    /\ team_filter = {}
    /\ position_filter = {}
    /\ built = NotBuilt
    /\ app = NotRendered
    /\ table = <<>>
    /\ stage = NoStage

Init == InitOn(RankPts, RankOdds)

InitCalc == InitOn(CalcPts, CalcOdds)

InitJoin == InitOn(JoinPts, JoinOdds)

\* a caller calls build_model(pts_df, odds_df, src)
CallBuildModel(src) ==
    /\ built' = BuildModel(pts, odds, src)
    /\ UNCHANGED <<pts, odds, selected_source, baseline, team_filter, position_filter, app,
                   table, stage>>

\* the first run of the script
Render ==
    /\ ~app.rendered
    /\ app' = RunApp(pts, odds, selected_source, baseline, team_filter, position_filter)
    /\ UNCHANGED <<pts, odds, selected_source, baseline, team_filter, position_filter, built,
                   table, stage>>

\* st.selectbox("Odds Source", ...) changes: the script runs again.  A filter
\* widget whose options changed is a new widget and starts from its default.
SelectSource(s) ==
    /\ app.rendered
    /\ \E i \in 1..Len(OddsSources(CanonicalizeOdds(odds))) :
            OddsSources(CanonicalizeOdds(odds))[i] = s
    /\ s # selected_source
    /\ LET core == RunApp(pts, odds, s, baseline, {}, {})
           tf == IF core.all_teams = app.all_teams THEN team_filter ELSE {}
           pf == IF core.present_positions = app.present_positions
                 THEN position_filter ELSE {}
       IN  /\ selected_source' = s
           /\ team_filter' = tf
           /\ position_filter' = pf
           /\ app' = RunApp(pts, odds, s, baseline, tf, pf)
    /\ UNCHANGED <<pts, odds, baseline, built, table, stage>>

\* st.selectbox("Compare Exp Pts vs Position:", ...) changes
SetBaseline(b) ==
    /\ app.rendered /\ app.err = ""
    /\ b # baseline
    /\ baseline' = b
    /\ app' = RunApp(pts, odds, selected_source, b, team_filter, position_filter)
    /\ UNCHANGED <<pts, odds, selected_source, team_filter, position_filter, built,
                   table, stage>>

\* st.multiselect("Team", options=all_teams) changes
SetTeamFilter(tf) ==
    /\ app.rendered /\ app.err = ""
    /\ tf \subseteq app.all_teams /\ Cardinality(tf) <= MaxFilter
    /\ tf # team_filter
    /\ team_filter' = tf
    /\ app' = RunApp(pts, odds, selected_source, baseline, tf, position_filter)
    /\ UNCHANGED <<pts, odds, selected_source, baseline, position_filter, built,
                   table, stage>>

\* st.multiselect("Position", options=present_positions) changes
SetPositionFilter(pf) ==
    /\ app.rendered /\ app.err = ""
    /\ pf \subseteq app.present_positions /\ Cardinality(pf) <= MaxFilter
    /\ pf # position_filter
    /\ position_filter' = pf
    /\ app' = RunApp(pts, odds, selected_source, baseline, team_filter, pf)
    /\ UNCHANGED <<pts, odds, selected_source, baseline, team_filter, built,
                   table, stage>>

\* a table handed to the stage functions, nothing called yet
InitStages ==
    /\ pts = <<>>
    /\ odds = <<>>
    /\ selected_source = ""
    /\ baseline = "avg"
    /\ team_filter = {}
    /\ position_filter = {}
    /\ built = NotBuilt
    /\ app = NotRendered
    /\ table \in StageTables
    /\ stage = NoStage

\* m = stage(m): the caller keeps its table when the stage raises
CallStage(name, out) ==
    /\ stage' = StageCall(name, table, out)
    /\ table' = IF out.err = "" THEN out.rows ELSE table
    /\ UNCHANGED <<pts, odds, selected_source, baseline, team_filter, position_filter,
                   built, app>>

CallAddExpectedGames ==
    table # <<>> /\ CallStage("add_expected_games", ExpectedGamesStage(table))

CallAddExpectedPoints ==
    table # <<>> /\ CallStage("add_expected_points", ExpectedPointsStage(table))

CallAddPositionAverages ==
    table # <<>> /\ CallStage("add_position_averages", PositionAveragesStage(table))

CallAddValueVsPositionAvg ==
    table # <<>> /\ CallStage("add_value_vs_position_avg", ValueVsPositionAvgStage(table))

CallAddPositionMins ==
    table # <<>> /\ CallStage("add_position_mins", PositionMinsStage(table))

CallAddValueVsPositionMin ==
    table # <<>> /\ CallStage("add_value_vs_position_min", ValueVsPositionMinStage(table))

Next ==
    \/ \E src \in CallerSources : CallBuildModel(src)
    \/ Render
    \/ \E s \in CallerSources : SelectSource(s)
    \/ \E b \in {"avg", "min"} : SetBaseline(b)
    \/ \E tf \in SUBSET {KC, SEA, BAL} : SetTeamFilter(tf)
    \/ \E pf \in SUBSET AllPositions : SetPositionFilter(pf)

\* the script alone
NextApp ==
    \/ Render
    \/ \E s \in CallerSources : SelectSource(s)
    \/ \E b \in {"avg", "min"} : SetBaseline(b)
    \/ \E tf \in SUBSET {KC, SEA, BAL} : SetTeamFilter(tf)
    \/ \E pf \in SUBSET AllPositions : SetPositionFilter(pf)

\* the calls of build_model, the first run of the script and the baseline
\* choice: the steps that compute the tables, without the filters
NextCalc ==
    \/ \E src \in CallerSources : CallBuildModel(src)
    \/ Render
    \/ \E b \in {"avg", "min"} : SetBaseline(b)

Spec == Init /\ [][Next]_vars

\* the script on the rank inputs
SpecApp == Init /\ [][NextApp]_vars

\* the computation on the rank inputs
SpecRank == Init /\ [][NextCalc]_vars

\* the computation on the calculation inputs
SpecCalc == InitCalc /\ [][NextCalc]_vars

\* the computation on the join inputs
SpecJoin == InitJoin /\ [][NextCalc]_vars

\* the stage functions called in any order
NextStages ==
    \/ CallAddExpectedGames
    \/ CallAddExpectedPoints
    \/ CallAddPositionAverages
    \/ CallAddValueVsPositionAvg
    \/ CallAddPositionMins
    \/ CallAddValueVsPositionMin

SpecStages == InitStages /\ [][NextStages]_vars

-----------------------------------------------------------------------------
(* Claims C1, C2, C3, C6, C13: the calculation, checked under SpecCalc *)

\* the seed as written in the data: an int's digits, a text, nothing when missing
SeedWritten(c) ==
    CASE c.k = "int" -> IntToStr(c.v)
      [] c.k = "str" -> c.s
      [] OTHER -> <<>>

\* the first run of digits of text t is the integer 1
FirstRunIsOne(t) ==
    \E i \in 1..Len(t) : \E j \in i..Len(t) :
        /\ \A k \in 1..(i - 1) : t[k] \notin Digits
        /\ \A k \in i..j : t[k] \in Digits
        /\ j = Len(t) \/ t[j + 1] \notin Digits
        /\ DigitsValue(SubSeq(t, i, j)) = 1

\* the unit tables a state holds: build_model's m and run_app's m
UnitTables == {built.m, app.m}

\* the team tables a state holds
TeamTables == {built.team_display, app.team_display}

\* C1: every row of a unit table has expected_games = 1 + win_div + win_conf
\* when its seed's first run of digits is 1 (a bye), whatever its stored
\* win_wc, and expected_games = 1 + win_wc + win_div + win_conf otherwise.
C1_ExpectedGames ==
    \A t \in UnitTables : \A i \in 1..Len(t) :
        t[i].expected_games =
            IF FirstRunIsOne(SeedWritten(t[i].seed))
            THEN One + t[i].div.v + t[i].conf.v
            ELSE One + t[i].wc.v + t[i].div.v + t[i].conf.v

\* a bye row with a noisy seed and win_wc = 1.0 that is left out of its sum
C1_Witness ==
    \E i \in 1..Len(built.m) :
        /\ built.m[i].seed = SeedTxt(<<"#", "1">>)
        /\ built.m[i].wc = Num(1000)
        /\ built.m[i].div = Num(300)
        /\ built.m[i].expected_games = 1300 + built.m[i].conf.v

\* C2: every team row with win_wc >= win_div >= win_conf has, before the
\* percentages are rendered: not a bye, play_1 + play_2 + play_3 + play_4 = 1
\* and play_3_plus = win_div; a bye, play_1 + play_2 + play_3 = 1, play_4 = 0
\* and play_3_plus = win_conf.  Bye is the table's own is_bye.
C2_Distribution ==
    \A t \in TeamTables : \A i \in 1..Len(t) :
        (t[i].wc >= t[i].div /\ t[i].div >= t[i].conf) =>
            IF t[i].is_bye
            THEN /\ t[i].play1 + t[i].play2 + t[i].play3 = One
                 /\ t[i].play4 = 0
                 /\ t[i].play3plus = t[i].conf
            ELSE /\ t[i].play1 + t[i].play2 + t[i].play3 + t[i].play4 = One
                 /\ t[i].play3plus = t[i].div

\* a monotone bye row with every mass positive beside a non-bye row
C2_Witness ==
    \E i, j \in 1..Len(built.team_display) :
        /\ built.team_display[i].is_bye
        /\ built.team_display[i].wc = 1000
        /\ built.team_display[i].div = 300
        /\ built.team_display[i].conf = 125
        /\ built.team_display[i].play2 = 175
        /\ ~built.team_display[j].is_bye
        /\ built.team_display[j].play4 = 50

\* the Expected Games of the team tables agree with the unit table of the same run
SameGames(units, teams) ==
    \A i \in 1..Len(teams) : \A j \in 1..Len(units) :
        units[j].team = teams[i].team =>
            teams[i].expected_games = Round2(units[j].expected_games)

\* C3: for every team and every seed, the Expected Games of the team table
\* is the unit table's expected_games of that team rounded to 2 decimals,
\* in build_model and in run_app.
C3_SameGames ==
    /\ SameGames(built.m, built.team_display)
    /\ SameGames(app.m, app.team_display)

\* C6: a missing or non-numeric win_wc, win_div or win_conf counts as 0.0
\* in the unit table and in the team table, and the build completes and
\* returns both tables (the calculation inputs hold no duplicate team).
C6_Tolerated ==
    built.called =>
        /\ built.err = ""
        /\ Len(built.team_display) = Len(OddsSel(odds, built.selected_source))
        /\ \A i \in 1..Len(built.m) :
              built.m[i].expected_games =
                  IF FirstRunIsOne(SeedWritten(built.m[i].seed))
                  THEN One + CoerceFill(built.m[i].div) + CoerceFill(built.m[i].conf)
                  ELSE One + CoerceFill(built.m[i].wc) + CoerceFill(built.m[i].div)
                           + CoerceFill(built.m[i].conf)

\* the mean of the games-played distribution of team row t
MeanGames(t) == 1 * t.play1 + 2 * t.play2 + 3 * t.play3 + 4 * t.play4

\* C13: for every team of a team distribution table, bye or not, monotone
\* or not, the expected games before rounding (the table's own and the
\* unit table's of that team) is 1*play_1 + 2*play_2 + 3*play_3 + 4*play_4,
\* and play_3_plus = play_3 + play_4.
C13_MeanOfDistribution ==
    /\ \A tt \in TeamTables : \A i \in 1..Len(tt) :
          /\ tt[i].games = MeanGames(tt[i])
          /\ tt[i].play3plus = tt[i].play3 + tt[i].play4
    /\ \A i \in 1..Len(built.team_display) : \A j \in 1..Len(built.m) :
          built.m[j].team = built.team_display[i].team =>
              built.m[j].expected_games = MeanGames(built.team_display[i])
    /\ \A i \in 1..Len(app.team_display) : \A j \in 1..Len(app.m) :
          app.m[j].team = app.team_display[i].team =>
              app.m[j].expected_games = MeanGames(app.team_display[i])

-----------------------------------------------------------------------------
(* Claims C4, C5, C10: the join and the source slice, checked under SpecJoin *)

\* the sources that occur in the odds data
PresentSources == {odds[i].source : i \in 1..Len(odds)} \ {NoSource}

SourceIndex(s) == CHOOSE i \in 1..Len(SourceOrder) : SourceOrder[i] = s

\* the source a build asked for arg works on
ActiveSource(arg) ==
    IF arg \in PresentSources \/ PresentSources = {} THEN arg
    ELSE CHOOSE s \in PresentSources :
             \A t \in PresentSources : SourceIndex(s) <= SourceIndex(t)

\* the odds records of source src
SliceOf(src) == {i \in 1..Len(odds) : odds[i].source = src}

\* the normalised teams present in the slice of source src
SliceTeams(src) == {Strip(odds[i].team) : i \in SliceOf(src)}

\* the positions that occur in the unit table
UnitPositions == {Strip(pts[i].position) : i \in 1..Len(pts)}

IsUnit(row, u) ==
    /\ row.team = Strip(u.team)
    /\ row.position = Strip(u.position)
    /\ row.reg_ppg = u.reg_ppg

\* how often unit row u occurs in the joined table m
CountIn(m, u) == Cardinality({j \in 1..Len(m) : IsUnit(m[j], u)})

FullCoverage(src) ==
    \A t \in SliceTeams(src) : \A q \in UnitPositions :
        \E i \in 1..Len(pts) : Strip(pts[i].team) = t /\ Strip(pts[i].position) = q

JoinedExactly(m, src) ==
    /\ \A j \in 1..Len(m) :
          /\ m[j].team \in SliceTeams(src)
          /\ \E i \in 1..Len(pts) : IsUnit(m[j], pts[i])
    /\ \A i \in 1..Len(pts) :
          CountIn(m, pts[i]) = IF Strip(pts[i].team) \in SliceTeams(src) THEN 1 ELSE 0
    /\ FullCoverage(src) =>
          Len(m) = Cardinality(SliceTeams(src)) * Cardinality(UnitPositions)

\* C4: a successful join keeps exactly the unit rows whose normalised team
\* is in the selected slice, each exactly once, and drops the others; when
\* every slice team has every position the row count is teams x positions.
C4_JoinExact ==
    /\ (built.called /\ built.err = "") => JoinedExactly(built.m, built.selected_source)
    /\ (app.rendered /\ app.err = "") => JoinedExactly(app.m, app.source)

\* six unit rows, the other source's team dropped: 1 team x 2 positions = 2 rows
C4_Witness ==
    /\ built.called /\ built.err = ""
    /\ Len(pts) = 6
    /\ Cardinality(SliceTeams(built.selected_source)) = 1
    /\ PresentSources = {"DVOA", "ESPN"}
    /\ Len(built.m) = 2

\* the tables of a build hold records of source src only, and all of them
OnlySource(src) ==
    /\ \A j \in 1..Len(built.m) : built.m[j].source = src
    /\ \A j \in 1..Len(built.team_display) :
          /\ built.team_display[j].source = src
          /\ built.team_display[j].team \in SliceTeams(src)
    /\ \A i \in SliceOf(src) :
          \E j \in 1..Len(built.team_display) :
              built.team_display[j].team = Strip(odds[i].team)

\* C5 as stated: both tables of a build are derived only from the odds
\* records whose odds_source equals the selected_source the caller passed.
C5_CallerSource ==
    (built.called /\ built.err = "") => OnlySource(built.arg)

\* C5 amended: both tables of a build are derived only from the odds records
\* of the source the build returns: the caller's selected_source when it
\* occurs among the odds sources (or there is none), else the first odds
\* source in sorted order.
C5_EffectiveSource ==
    (built.called /\ built.err = "") =>
        /\ built.selected_source = ActiveSource(built.arg)
        /\ OnlySource(built.selected_source)

\* the caller asks for a source the data lacks and gets the first one's tables
C5_Witness ==
    /\ built.called /\ built.err = ""
    /\ built.arg = "Vegas"
    /\ PresentSources = {"DVOA", "ESPN"}
    /\ built.selected_source = "DVOA"
    /\ Len(built.m) > 0
    /\ Len(built.team_display) > 0

\* a normalised team occurs in more than one odds record of source src
DupTeam(src) ==
    \E i, j \in SliceOf(src) : i # j /\ Strip(odds[i].team) = Strip(odds[j].team)

\* C10: when a team occurs more than once in the slice of the selected
\* source the join raises the merge-cardinality error, the build is
\* aborted, and no table (so no duplicated unit row) is produced.
C10_DuplicateTeamAborts ==
    /\ (built.called /\ DupTeam(ActiveSource(built.arg))) =>
          /\ built.err = "MergeError"
          /\ built.m = <<>> /\ built.rank_table = <<>> /\ built.team_display = <<>>
    /\ (app.rendered /\ app.err # "stopped" /\ DupTeam(app.source)) =>
          /\ app.err = "MergeError"
          /\ app.m = <<>> /\ app.rank_table = <<>> /\ app.team_display = <<>>

\* a build aborted on a duplicated team while another source is clean
C10_Witness ==
    /\ built.called /\ built.err = "MergeError"
    /\ DupTeam(built.arg)
    /\ \E s \in PresentSources : SliceOf(s) # {} /\ ~DupTeam(s)
    /\ \E i \in 1..Len(pts) : Strip(pts[i].team) \in SliceTeams(built.arg)

-----------------------------------------------------------------------------
(* Claims C7, C9: ranks and position baselines, checked under SpecRank *)

\* the rows of t in the position group of row i
SamePosition(t, i) == {j \in 1..Len(t) : t[j].position = t[i].position}

\* how many rows of S hold a strictly greater value of column col than row i
Above(t, S, i, col) ==
    Cardinality({j \in S : RatGt(ValueOf(t[j], col), ValueOf(t[i], col))})

GroupRanksRight(t) ==
    \A i \in 1..Len(t) :
        /\ t[i].position_rank = 1 + Above(t, SamePosition(t, i), i, "expected_points")
        /\ t[i].ppg_rank = 1 + Above(t, SamePosition(t, i), i, "reg_ppg")

\* C7: every rank is a competition rank, 1 + the number of rows with a
\* strictly greater value: position_rank on expected_points and ppg_rank on
\* reg_ppg within the row's position group, overall_rank over all rows on
\* the chosen baseline's value column.
C7_CompetitionRanks ==
    /\ GroupRanksRight(built.rank_table)
    /\ GroupRanksRight(app.base)
    /\ \A i \in 1..Len(app.base) :
          app.base[i].overall_rank =
              1 + Above(app.base, 1..Len(app.base), i, ValueCol(app.baseline))

\* a position group ranked 1, 1, 3 and an overall tie whose next rank is skipped
C7_Witness ==
    /\ \E i, j, k \in 1..Len(built.rank_table) :
          /\ i # j
          /\ {j, k} \subseteq SamePosition(built.rank_table, i)
          /\ built.rank_table[i].position_rank = 1
          /\ built.rank_table[j].position_rank = 1
          /\ built.rank_table[k].position_rank = 3
    /\ \E i, j \in 1..Len(app.base) :
          /\ i # j
          /\ app.base[i].overall_rank = app.base[j].overall_rank
          /\ \A k \in 1..Len(app.base) :
                app.base[k].overall_rank # app.base[i].overall_rank + 1
          /\ \E k \in 1..Len(app.base) :
                app.base[k].overall_rank = app.base[i].overall_rank + 2

RECURSIVE SumOver(_, _)
\* the sum of expected_points over the rows S of t
SumOver(t, S) ==
    IF S = {} THEN 0
    ELSE LET j == CHOOSE x \in S : TRUE
         IN  t[j].expected_points + SumOver(t, S \ {j})

BaselinesRight(t) ==
    \A i \in 1..Len(t) :
        LET g == SamePosition(t, i)
            avg == t[i].position_avg_expected_points
            min == t[i].position_min_expected_points
            vavg == t[i].value_vs_position_avg_expected_points
            vmin == t[i].value_vs_position_min_expected_points
        IN  /\ avg.num * Cardinality(g) = SumOver(t, g) * avg.den
            /\ \E j \in g : t[j].expected_points = min
            /\ \A j \in g : t[j].expected_points >= min
            /\ RatEq(vavg, Rat(t[i].expected_points * avg.den - avg.num, avg.den))
            /\ vmin = t[i].expected_points - min
            /\ vmin >= 0
            /\ \E j \in g : t[j].value_vs_position_min_expected_points = 0
            /\ Cardinality(g) = 1 => vavg.num = 0 /\ vmin = 0

\* C9: position_avg and position_min are the mean and the minimum of
\* expected_points over the row's position group; the two deviations are
\* expected_points minus each; the min deviation is >= 0 and is 0 for some
\* row of each group; in a single-member group both deviations are 0.
C9_PositionBaselines ==
    /\ BaselinesRight(built.m)
    /\ BaselinesRight(app.m)

\* a single-member group beside a group whose mean lies strictly between
\* its members
C9_Witness ==
    \E i, j \in 1..Len(built.m) :
        /\ SamePosition(built.m, i) = {i}
        /\ built.m[i].value_vs_position_min_expected_points = 0
        /\ Cardinality(SamePosition(built.m, j)) = 2
        /\ built.m[j].value_vs_position_avg_expected_points.num > 0
        /\ built.m[j].value_vs_position_min_expected_points > 0

-----------------------------------------------------------------------------
(* Claim C8: the filters, checked under SpecApp *)

Shown(r, tf, pf) ==
    /\ tf # {} => r.team \in tf
    /\ pf # {} => r.position \in pf

\* C8: a change of the team or position filter leaves every rank as it
\* was: the ranked table is unchanged, each displayed row is a row of it
\* with its overall_rank, position_rank and ppg_rank, and exactly the rows
\* the filters exclude are removed.
C8_FiltersKeepRanks ==
    [][(/\ app.rendered /\ app.err = "" /\ app'.err = ""
        /\ selected_source' = selected_source
        /\ baseline' = baseline) =>
            /\ app'.base = app.base
            /\ \A i \in 1..Len(app'.filtered) :
                  \E j \in 1..Len(app.base) : app'.filtered[i] = app.base[j]
            /\ \A j \in 1..Len(app.base) :
                  Shown(app.base[j], team_filter', position_filter') <=>
                      \E i \in 1..Len(app'.filtered) : app'.filtered[i] = app.base[j]
            /\ Len(app'.filtered) <= Len(app.base)
            /\ \A i \in 1..Len(app'.table_display) :
                  app'.table_display[i].overall_rank = app'.filtered[i].overall_rank
      ]_vars

\* a filtered view that shows fewer rows than its highest overall_rank
C8_Witness ==
    /\ app.rendered /\ app.err = ""
    /\ team_filter # {} /\ position_filter # {}
    /\ Len(app.filtered) = 1
    /\ app.table_display[1].overall_rank > 2
    /\ app.filtered[1].position_rank > 1

-----------------------------------------------------------------------------
(* Claims C11, C12: the stage functions on their own, checked under SpecStages *)

\* the columns a stage needs on the table it is given
RequiredColumns(name) ==
    CASE name = "add_expected_games" -> {"wc", "div", "conf"}
      [] name = "add_expected_points" -> {"reg_ppg", "expected_games"}
      [] name = "add_position_averages" -> {"expected_points", "position"}
      [] name = "add_value_vs_position_avg" ->
            {"expected_points", "position_avg_expected_points"}
      [] name = "add_position_mins" -> {"expected_points", "position"}
      [] name = "add_value_vs_position_min" ->
            {"expected_points", "position_min_expected_points"}

\* C11: in any order of stage calls, a stage called on a table that lacks
\* a column it requires fails with the one missing-column error kind (the
\* KeyError of the other stages), returns no table, and the table it was
\* given is unchanged.
C11_OneErrorKind ==
    (stage.called /\ ~(RequiredColumns(stage.name) \subseteq DOMAIN stage.given[1])) =>
        /\ stage.err = "KeyError"
        /\ ~stage.returned
        /\ table = stage.given

\* the rows of the table carry the expected_games the stage computed
GamesComputed ==
    /\ table # <<>>
    /\ "expected_games" \in DOMAIN table[1]

\* C12: in add_expected_games a team is a bye (its win_wc is left out of
\* expected_games) exactly when the first run of digits in its seed is the
\* integer 1; a missing seed or one without digits makes it non-bye; and
\* whatever the seeds, the stage does not fail on a table that has the
\* three odds columns.
C12_SeedParse ==
    /\ (/\ stage.called /\ stage.name = "add_expected_games"
        /\ {"wc", "div", "conf"} \subseteq DOMAIN stage.given[1]) => stage.err = ""
    /\ GamesComputed =>
          \A i \in 1..Len(table) :
              LET r == table[i]
                  bye == /\ "seed" \in DOMAIN r
                         /\ FirstRunIsOne(SeedWritten(r.seed))
              IN  /\ r.wc.v > 0
                  /\ bye <=> r.expected_games = One + r.div.v + r.conf.v
                  /\ ~bye <=> r.expected_games = One + r.wc.v + r.div.v + r.conf.v
                  /\ ("seed" \in DOMAIN r /\ r.seed.k = "nan") => ~bye

\* the stage has run on a column holding a blank-padded 1 and a missing seed
C12_Witness ==
    /\ stage.called /\ stage.name = "add_expected_games" /\ stage.err = ""
    /\ GamesComputed
    /\ "seed" \in DOMAIN table[1]
    /\ table[1].seed = SeedTxt(<<" ", "1", " ">>)
    /\ table[1].expected_games = 1425
    /\ table[3].seed = SeedNaN
    /\ table[3].expected_games = 1750

====
